---- MODULE Spec2Model ----
(***************************************************************************)
(* A model of compare50's command-line driver, src/compare50/__main__.py:  *)
(* the exception hook, SubmissionFactory, ArgParser.error and main().      *)
(* main() is cut into steps at the calls it makes to its collaborators     *)
(* (argparse, the pass registry, the file system, _api.rank, _api.compare, *)
(* _renderer.render); each step is one action, and any collaborator call   *)
(* may raise instead of returning.                                         *)
(***************************************************************************)
EXTENDS Integers, Sequences, FiniteSets, TLC

VARIABLES
    pc,               \* position of the process in main()
    optV,             \* whether -v is on the command line of this process
    args,             \* the namespace returned by parser.parse_args()
    verbose,          \* excepthook.verbose
    output,           \* what is at args.output: "unseen" until line 256 looks, then
                      \* "absent", "file" or "dir"
    prompted,         \* "no", or how input() ended: "answered" or "eof"
    resp,             \* main's local resp (line 258/261)
    removedBy,        \* "none", "os.remove" or "shutil.rmtree"
    subs,             \* main's local subs
    archive_subs,     \* main's local archive_subs
    ignored_subs,     \* main's local ignored_subs
    built,            \* every Submission as SubmissionFactory._get returned it
    passes,           \* main's local passes
    preprocessor,     \* main's local preprocessor
    scores,           \* main's local scores
    pass_to_results,  \* main's local pass_to_results
    i,                \* index of pass_ in the loop of line 294
    log,              \* progress-bar phases and collaborator calls, in order
    raised,           \* the exception that reached sys.excepthook
    printed,          \* the message the hook wrote to stderr
    traceback,        \* whether traceback.print_exception ran
    exitCode,         \* the process's exit status, -1 while it runs
    outcome           \* how the process ended

vars == << pc, optV, args, verbose, output, prompted, resp, removedBy, subs,
           archive_subs, ignored_subs, built, passes, preprocessor, scores, pass_to_results, i, log,
           raised, printed, traceback, exitCode, outcome >>

(***************************************************************************)
(* Bounds of the model.                                                    *)
(***************************************************************************)
MaxSubs == 2      \* longest list of submission paths on the command line
MaxPasses == 2    \* longest list of pass names given with -p

Range(s) == { s[k] : k \in DOMAIN s }

SeqsUpTo(S, lo, hi) == UNION { [1..n -> S] : n \in lo..hi }

(***************************************************************************)
(* The pass registry (_data.Pass), which is not part of this file: a name  *)
(* bound to a comparator and an ordered preprocessor list.                 *)
(***************************************************************************)
PassRegistry ==
    [ structure |-> [ name |-> "structure", comparator |-> "Winnowing",
                      preprocessors |-> << "strip_whitespace", "strip_comments",
                                           "normalize_identifiers" >> ],
      text      |-> [ name |-> "text", comparator |-> "Winnowing",
                      preprocessors |-> << "split_on_whitespace" >> ] ]

\* _data.Pass._get_all(): the registered passes, in registry order
Pass_get_all == << PassRegistry["structure"], PassRegistry["text"] >>

PassNames == { Pass_get_all[k].name : k \in DOMAIN Pass_get_all }

\* _data.Pass._get(name): the pass, or KeyError(name)
Pass_get(name) ==
    IF name \in PassNames
    THEN [ raises |-> "none", value |-> PassRegistry[name] ]
    ELSE [ raises |-> "KeyError", value |-> name ]

\* names a user may type after -p: the registered ones and a misspelt one
RequestablePasses == PassNames \cup { "nope" }

(***************************************************************************)
(* The file system the submission paths point into: what path.is_file()    *)
(* and lib50.files() answer for each path, and the files whose read()      *)
(* raises UnicodeDecodeError.  Files are numbered in the sort order of     *)
(* their names.                                                            *)
(***************************************************************************)
FS ==
    [ a |-> [ is_file |-> FALSE, root |-> "a", included |-> << 3, 1, 2 >>,
              undecodable |-> { 2 } ],
      b |-> [ is_file |-> TRUE, root |-> "b/..", included |-> << 5 >>,
              undecodable |-> { } ],
      e |-> [ is_file |-> FALSE, root |-> "e", included |-> << 4 >>,
              undecodable |-> { 4 } ],
      u |-> [ is_file |-> TRUE, root |-> "u/..", included |-> << 6 >>,
              undecodable |-> { 6 } ],
      c |-> [ is_file |-> FALSE, root |-> "c", included |-> << 2, 1 >>,
              undecodable |-> { } ],
      d |-> [ is_file |-> FALSE, root |-> "d", included |-> << 7 >>,
              undecodable |-> { } ] ]

SubmissionPaths == { "a", "b", "e" }      \* what may follow as positionals
ArchivePaths == { "c", "u" }              \* what may follow -a
DistroPaths == { "d" }                    \* what may follow -d

(***************************************************************************)
(* class Preprocessor: the composed preprocessor is the ordered list it    *)
(* was built from.                                                         *)
(***************************************************************************)
Preprocessor(preprocessors) == [ preprocessors |-> preprocessors ]

NoPreprocessor == Preprocessor(<< >>)

\* _data.Submission(path, files, preprocessor=preprocessor)
Submission(path, files, pre) ==
    [ path |-> path, files |-> files, preprocessor |-> pre ]

NoSubmission == Submission("", << >>, NoPreprocessor)

(***************************************************************************)
(* Messages and exceptions.  A message is what str(exc) prints; an         *)
(* exception without args has NoMsg.                                       *)
(***************************************************************************)
Msg(text, arg, names) == [ text |-> text, arg |-> arg, names |-> names ]

NoMsg == Msg("", "", << >>)

Exc(cls, msg) == [ cls |-> cls, msg |-> msg ]

NoExc == Exc("none", NoMsg)

EmptySubmissionError(path) == Exc("_api.Error", Msg("Empty submission: ", path, << >>))

\* SubmissionFactory._get, lines 56-79
decodable_files_of(path) ==
    SelectSeq(FS[path].included, LAMBDA f : f \notin FS[path].undecodable)

SubmissionFactory_get(path, pre) ==
    LET decodable_files == decodable_files_of(path)
    IN  IF decodable_files = << >>
        THEN [ raises |-> EmptySubmissionError(FS[path].root), value |-> NoSubmission ]
        ELSE [ raises |-> NoExc,
               value |-> Submission(FS[path].root,
                                    SortSeq(decodable_files, LAMBDA x, y : x < y),
                                    pre) ]

\* SubmissionFactory.get_all, lines 81-92: the loop over paths, from index k on,
\* with the set built so far
RECURSIVE get_all_from(_, _, _, _)
get_all_from(paths, pre, k, acc) ==
    IF k > Len(paths)
    THEN [ raises |-> NoExc, value |-> acc ]
    ELSE LET r == SubmissionFactory_get(paths[k], pre)
         IN  IF r.raises = NoExc
             THEN get_all_from(paths, pre, k + 1, acc \cup { r.value })
             ELSE IF r.raises.cls = "_api.Error"
                  THEN get_all_from(paths, pre, k + 1, acc)
                  ELSE [ raises |-> r.raises, value |-> { } ]

\* get_all without the except clause of lines 90-91
get_all_Uncaught(paths, pre) ==
    LET failing == { k \in DOMAIN paths : SubmissionFactory_get(paths[k], pre).raises # NoExc }
    IN  IF failing # { }
        THEN [ raises |-> SubmissionFactory_get(paths[CHOOSE k \in failing : \A j \in failing : k <= j],
                                                pre).raises,
               value |-> { } ]
        ELSE get_all_from(paths, pre, 1, { })

get_all(paths, pre) == get_all_from(paths, pre, 1, { })

(***************************************************************************)
(* excepthook, lines 20-35.                                                *)
(***************************************************************************)
IsDomainError(cls) == cls \in { "_api.Error", "lib50.Error" }

IsException(cls) == cls \notin { "KeyboardInterrupt", "GeneratorExit" }

GenericMsg == Msg("Sorry, something's wrong! Let sysadmins@cs50.harvard.edu know!", "", << >>)

\* the hook with traceback.print_exception made unconditional
excepthook_AlwaysTraceback(exc, v) ==
    IF IsDomainError(exc.cls) /\ exc.msg # NoMsg
    THEN [ printed |-> exc.msg, traceback |-> TRUE, sys_exit |-> TRUE ]
    ELSE IF exc.cls = "FileNotFoundError"
    THEN [ printed |-> Msg("{} not found", exc.msg.arg, << >>), traceback |-> TRUE,
           sys_exit |-> TRUE ]
    ELSE IF ~IsException(exc.cls) /\ exc.cls # "KeyboardInterrupt"
    THEN [ printed |-> NoMsg, traceback |-> FALSE, sys_exit |-> FALSE ]
    ELSE [ printed |-> GenericMsg, traceback |-> TRUE, sys_exit |-> TRUE ]

\* what the hook does with exc while excepthook.verbose = v
excepthook(exc, v) ==
    IF IsDomainError(exc.cls) /\ exc.msg # NoMsg
    THEN [ printed |-> exc.msg, traceback |-> v, sys_exit |-> TRUE ]
    ELSE IF exc.cls = "FileNotFoundError"
    THEN [ printed |-> Msg("{} not found", exc.msg.arg, << >>), traceback |-> v,
           sys_exit |-> TRUE ]
    ELSE IF ~IsException(exc.cls) /\ exc.cls # "KeyboardInterrupt"
    THEN [ printed |-> NoMsg, traceback |-> FALSE, sys_exit |-> FALSE ]
    ELSE [ printed |-> GenericMsg, traceback |-> v, sys_exit |-> TRUE ]

\* the exceptions main's collaborators may raise
EnvExceptions ==
    { Exc("_api.Error", Msg("comparison failed", "", << >>)),
      Exc("_api.Error", NoMsg),
      Exc("lib50.Error", Msg("invalid pattern", "", << >>)),
      Exc("FileNotFoundError", Msg("No such file or directory", "missing", << >>)),
      Exc("RuntimeError", Msg("internal", "", << >>)),
      Exc("KeyboardInterrupt", NoMsg),
      Exc("GeneratorExit", NoMsg) }

(***************************************************************************)
(* The command line and the terminal.                                      *)
(***************************************************************************)
ArchiveArgs == { << >>, << "u" >>, << "u", "c" >> }

DistroArgs == { << >>, << "d" >> }

NoArgs == [ submissions |-> << >>, archive |-> << >>, distro |-> << >>,
            passes |-> << >>, verbose |-> FALSE ]

\* what the user may type at the prompt of line 258
Answers ==
    { << >>, << "y" >>, << "Y" >>, << "n" >>, << "N" >>, << "y", "n" >>,
      << "Y", "e", "s" >>, << " ", "y" >>, << "n", "y" >>, << "o", "k" >> }

\* what input() meets: a line, or the end of the input
Stdin == { [ eof |-> FALSE, line |-> a ] : a \in Answers } \cup { [ eof |-> TRUE, line |-> << >> ] }

\* str.lower()
lower(str) ==
    [ k \in DOMAIN str |-> IF str[k] = "Y" THEN "y" ELSE IF str[k] = "N" THEN "n" ELSE str[k] ]

\* str.startswith(c), c one character
startswith(str, c) == Len(str) >= 1 /\ str[1] = c

\* the test of line 264 with "not n" in place of "y"
wants_removal_UnlessN(r) == r = << >> \/ ~startswith(lower(r), "n")

\* the test of line 264
wants_removal(r) == r = << >> \/ startswith(lower(r), "y")

(***************************************************************************)
(* What the collaborators return, as terms over their arguments.           *)
(***************************************************************************)
Ids(S) == { s.path : s \in S }

\* line 282
ignored_files_of(S) == UNION { Range(s.files) : s \in S }

\* _api.rank(subs, archive_subs, ignored_files, pass_)
rank(S, A, ignored, pass_) ==
    [ pass |-> pass_.name, subs |-> Ids(S), archive |-> Ids(A), ignored_files |-> ignored ]

NoScores == [ pass |-> "", subs |-> { }, archive |-> { }, ignored_files |-> { } ]

\* _api.compare(scores, ignored_files, pass_)
compare(sc, ignored, pass_) ==
    [ scores |-> sc, ignored_files |-> ignored, pass |-> pass_.name ]

\* an entry of the log: a progress-bar phase or a collaborator call
Ev(ev, arg, carried, sc) == [ ev |-> ev, arg |-> arg, carried |-> carried, scores |-> sc ]

Phase(name, arg) == Ev(name, arg, { }, NoScores)

AllSubs == subs \cup archive_subs \cup ignored_subs

\* the preprocessors the submissions carry
Carried == { s.preprocessor : s \in AllSubs }

Min(S) == CHOOSE x \in S : \A y \in S : x <= y

(***************************************************************************)
(* Init: the process has been started, module level has run (lines 38-40). *)
(***************************************************************************)
Init ==
    /\ pc = "start"
    /\ optV \in BOOLEAN
    /\ args = NoArgs
    /\ verbose = TRUE
    /\ output = "unseen"
    /\ prompted = "no"
    /\ resp = << >>
    /\ removedBy = "none"
    /\ subs = { }
    /\ archive_subs = { }
    /\ ignored_subs = { }
    /\ built = { }
    /\ passes = << >>
    /\ preprocessor = NoPreprocessor
    /\ scores = NoScores
    /\ pass_to_results = << >>
    /\ i = 0
    /\ log = << >>
    /\ raised = NoExc
    /\ printed = NoMsg
    /\ traceback = FALSE
    /\ exitCode = -1
    /\ outcome = "running"

hookVars == << raised, printed, traceback, exitCode, outcome >>
outVars == << output, prompted, resp, removedBy >>
subVars == << subs, archive_subs, ignored_subs, built >>
runVars == << scores, pass_to_results, i, log >>

\* an exception leaves main: sys.excepthook runs (lines 20-35) and the process
\* ends, with sys.exit(1) of line 35 or, when the hook returns at line 27, with
\* the interpreter's status for an uncaught exception, which is 1 as well
Die(exc) ==
    LET h == excepthook(exc, verbose)
    IN  /\ raised' = exc
        /\ printed' = h.printed
        /\ traceback' = h.traceback
        /\ exitCode' = 1
        /\ outcome' = IF h.sys_exit THEN "error" ELSE "let_go"
        /\ pc' = "exited"

\* sys.exit(code) outside the hook
Exit(code, how) ==
    /\ exitCode' = code
    /\ outcome' = how
    /\ pc' = "exited"
    /\ UNCHANGED << raised, printed, traceback >>

\* the places of main where a collaborator is running
RaisePoints == { "start", "parsed", "output", "get_subs", "get_archive",
                 "get_ignored", "rank", "cmp_call", "render" }

\* what may be raised where: anything while the module and the parser run or
\* the passes are looked up; from the file system (lib50.files, open, input,
\* os.remove) a lib50.Error, a FileNotFoundError or another error; from _api
\* and _renderer a domain error or another error; Ctrl-C anywhere
RaisableAt(where) ==
    IF where \in { "start", "parsed" }
    THEN EnvExceptions
    ELSE IF where \in { "output", "get_subs", "get_archive", "get_ignored" }
    THEN { e \in EnvExceptions :
             e.cls \in { "lib50.Error", "FileNotFoundError", "RuntimeError",
                         "KeyboardInterrupt" } }
    ELSE { e \in EnvExceptions :
             e.cls \in { "_api.Error", "RuntimeError", "KeyboardInterrupt" } }

\* a collaborator raises instead of returning
Raise ==
    /\ pc \in RaisePoints
    /\ \E exc \in RaisableAt(pc) : Die(exc)
    /\ UNCHANGED << optV, args, verbose, outVars, subVars, passes, preprocessor, runVars >>

\* ArgParser.error leaving with the status of the hook
ArgParserError_Status1 ==
    /\ pc = "start"
    /\ Exit(1, "usage")
    /\ UNCHANGED << optV, args, verbose, outVars, subVars, passes, preprocessor, runVars >>

\* ArgParser.error, lines 96-99
ArgParserError ==
    /\ pc = "start"
    /\ Exit(2, "usage")
    /\ UNCHANGED << optV, args, verbose, outVars, subVars, passes, preprocessor, runVars >>

\* --list (ListAction, line 114) or -V: parser.exit()
ParserExit ==
    /\ pc = "start"
    /\ Exit(0, "listed")
    /\ UNCHANGED << optV, args, verbose, outVars, subVars, passes, preprocessor, runVars >>

\* lines 233-235
ParseArgs ==
    /\ pc = "start"
    /\ \E s \in SeqsUpTo(SubmissionPaths, 1, MaxSubs), a \in ArchiveArgs,
          d \in DistroArgs, p \in SeqsUpTo(RequestablePasses, 1, MaxPasses) :
          args' = [ submissions |-> s, archive |-> a, distro |-> d, passes |-> p,
                    verbose |-> optV ]
    /\ verbose' = args'.verbose
    /\ pc' = "parsed"
    /\ UNCHANGED << optV, outVars, subVars, passes, preprocessor, runVars, hookVars >>

\* lines 239-245 with only the first name looked up, the others dropped when unknown
ResolvePasses_FirstOnly ==
    /\ pc = "parsed"
    /\ IF Pass_get(args.passes[1]).raises = "KeyError"
       THEN /\ Die(Exc("_api.Error",
                       Msg("{} is not a pass, try one of these: {}",
                           Pass_get(args.passes[1]).value,
                           [ k \in DOMAIN Pass_get_all |-> Pass_get_all[k].name ])))
            /\ UNCHANGED << passes, preprocessor >>
       ELSE /\ passes' = LET known == SelectSeq(args.passes, LAMBDA n : n \in PassNames)
                         IN  [ k \in DOMAIN known |-> Pass_get(known[k]).value ]
            /\ preprocessor' = Preprocessor(passes'[1].preprocessors)
            /\ pc' = "output"
            /\ UNCHANGED hookVars
    /\ UNCHANGED << optV, args, verbose, outVars, subVars, runVars >>

\* lines 239-245
ResolvePasses ==
    /\ pc = "parsed"
    /\ LET bad == { k \in DOMAIN args.passes : Pass_get(args.passes[k]).raises = "KeyError" }
       IN  IF bad # { }
           THEN /\ Die(Exc("_api.Error",
                           Msg("{} is not a pass, try one of these: {}",
                               Pass_get(args.passes[Min(bad)]).value,
                               [ k \in DOMAIN Pass_get_all |-> Pass_get_all[k].name ])))
                /\ UNCHANGED << passes, preprocessor >>
           ELSE /\ passes' = [ k \in DOMAIN args.passes |-> Pass_get(args.passes[k]).value ]
                /\ preprocessor' = Preprocessor(passes'[1].preprocessors)
                /\ pc' = "output"
                /\ UNCHANGED hookVars
    /\ UNCHANGED << optV, args, verbose, outVars, subVars, runVars >>

\* lines 256-271
CheckOutput ==
    /\ pc = "output"
    /\ \E found \in { "absent", "file", "dir" } :
          IF found = "absent"
          THEN /\ output' = found
               /\ pc' = "prepare"
               /\ UNCHANGED << prompted, resp, removedBy, hookVars >>
          ELSE \E typed \in Stdin :
               /\ prompted' = IF typed.eof THEN "eof" ELSE "answered"
               /\ resp' = IF typed.eof THEN << "n" >> ELSE typed.line
               /\ IF wants_removal(resp')
                  THEN /\ removedBy' = IF found = "file" THEN "os.remove" ELSE "shutil.rmtree"
                       /\ output' = "absent"
                       /\ pc' = "prepare"
                       /\ UNCHANGED hookVars
                  ELSE /\ Exit(1, "quit")
                       /\ output' = found
                       /\ UNCHANGED removedBy
    /\ UNCHANGED << optV, args, verbose, subVars, passes, preprocessor, runVars >>

\* line 275: the with statement is entered; resp is not read again
EnterPreparing ==
    /\ pc = "prepare"
    /\ log' = Append(log, Phase("Preparing", ""))
    /\ resp' = << >>
    /\ pc' = "get_subs"
    /\ UNCHANGED << optV, args, verbose, output, prompted, removedBy, subVars, passes,
                    preprocessor, scores, pass_to_results, i, hookVars >>

\* line 277
GetSubs ==
    /\ pc = "get_subs"
    /\ LET r == get_all(args.submissions, preprocessor)
       IN  IF r.raises # NoExc
           THEN /\ Die(r.raises)
                /\ UNCHANGED << subs, built, log >>
           ELSE /\ subs' = r.value
                /\ built' = built \cup r.value
                /\ log' = Append(log, Ev("get_all", "submissions", { }, NoScores))
                /\ pc' = "get_archive"
                /\ UNCHANGED hookVars
    /\ UNCHANGED << optV, args, verbose, outVars, archive_subs, ignored_subs, passes,
                    preprocessor, scores, pass_to_results, i >>

\* line 279
GetArchive ==
    /\ pc = "get_archive"
    /\ LET r == get_all(args.archive, preprocessor)
       IN  IF r.raises # NoExc
           THEN /\ Die(r.raises)
                /\ UNCHANGED << archive_subs, built, log >>
           ELSE /\ archive_subs' = r.value
                /\ built' = built \cup r.value
                /\ log' = Append(log, Ev("get_all", "archive", { }, NoScores))
                /\ pc' = "get_ignored"
                /\ UNCHANGED hookVars
    /\ UNCHANGED << optV, args, verbose, outVars, subs, ignored_subs, passes,
                    preprocessor, scores, pass_to_results, i >>

AtLeastTwoError ==
    Exc("_api.Error",
        Msg("At least two non-empty submissions are required for a comparison.", "", << >>))

\* the test of line 284
too_few_BelowOne(S, A) == Cardinality(S) + Cardinality(A) < 1

too_few(S, A) == Cardinality(S) + Cardinality(A) < 2

\* lines 281-288
GetIgnored ==
    /\ pc = "get_ignored"
    /\ LET r == get_all(args.distro, preprocessor)
       IN  IF r.raises # NoExc
           THEN /\ Die(r.raises)
                /\ UNCHANGED << ignored_subs, built, log >>
           ELSE /\ ignored_subs' = r.value
                /\ built' = built \cup r.value
                /\ IF too_few(subs, archive_subs)
                   THEN /\ Die(AtLeastTwoError)
                        /\ log' = Append(log, Ev("get_all", "distro", { }, NoScores))
                   ELSE /\ log' = log \o << Ev("get_all", "distro", { }, NoScores),
                                            Phase("Scoring", passes[1].name) >>
                        /\ pc' = "rank"
                        /\ UNCHANGED hookVars
    /\ UNCHANGED << optV, args, verbose, outVars, subs, archive_subs, passes,
                    preprocessor, scores, pass_to_results, i >>

\* lines 289-293 ranking by the last requested pass
Rank_LastPass ==
    /\ pc = "rank"
    /\ scores' = rank(subs, archive_subs, ignored_files_of(ignored_subs), passes[Len(passes)])
    /\ log' = Append(log, Ev("rank", passes[Len(passes)].name, Carried, scores'))
    /\ pass_to_results' = << >>
    /\ i' = 1
    /\ pc' = "cmp_begin"
    /\ UNCHANGED << optV, args, verbose, outVars, subVars, passes, preprocessor, hookVars >>

\* lines 289-293
Rank ==
    /\ pc = "rank"
    /\ scores' = rank(subs, archive_subs, ignored_files_of(ignored_subs), passes[1])
    /\ log' = Append(log, Ev("rank", passes[1].name, Carried, scores'))
    /\ pass_to_results' = << >>
    /\ i' = 1
    /\ pc' = "cmp_begin"
    /\ UNCHANGED << optV, args, verbose, outVars, subVars, passes, preprocessor, hookVars >>

\* line 298 left out
setattr_preprocessor_Skipped(S, pre) == S

\* the loop body of line 298 on one set of submissions
setattr_preprocessor(S, pre) == { [ s EXCEPT !.preprocessor = pre ] : s \in S }

\* lines 294-298, one iteration up to the call of compare
CompareBegin ==
    /\ pc = "cmp_begin"
    /\ i <= Len(passes)
    /\ log' = Append(log, Phase("Comparing", passes[i].name))
    /\ preprocessor' = Preprocessor(passes[i].preprocessors)
    /\ subs' = setattr_preprocessor(subs, preprocessor')
    /\ archive_subs' = setattr_preprocessor(archive_subs, preprocessor')
    /\ ignored_subs' = setattr_preprocessor(ignored_subs, preprocessor')
    /\ pc' = "cmp_call"
    /\ UNCHANGED << optV, args, verbose, outVars, built, passes, scores, pass_to_results,
                    i, hookVars >>

\* line 299, and the step of the loop
CompareCall ==
    /\ pc = "cmp_call"
    /\ LET pass_ == passes[i]
           result == compare(scores, ignored_files_of(ignored_subs), pass_)
       IN  /\ pass_to_results' =
                 [ p \in DOMAIN pass_to_results \cup { pass_.name } |->
                       IF p = pass_.name THEN result ELSE pass_to_results[p] ]
           /\ log' = Append(log, Ev("compare", pass_.name, Carried, scores))
    /\ i' = i + 1
    /\ pc' = "cmp_begin"
    /\ UNCHANGED << optV, args, verbose, outVars, subVars, passes, preprocessor, scores,
                    hookVars >>

\* line 302 moved into the loop: rendering may start once one pass is compared
RenderBegin_InLoop ==
    /\ pc = "cmp_begin"
    /\ i > 1
    /\ log' = Append(log, Phase("Rendering", ""))
    /\ pc' = "render"
    /\ UNCHANGED << optV, args, verbose, outVars, subVars, passes, preprocessor, scores,
                    pass_to_results, i, hookVars >>

\* line 302, reached when the loop of line 294 is exhausted
RenderBegin ==
    /\ pc = "cmp_begin"
    /\ i > Len(passes)
    /\ log' = Append(log, Phase("Rendering", ""))
    /\ pc' = "render"
    /\ UNCHANGED << optV, args, verbose, outVars, subVars, passes, preprocessor, scores,
                    pass_to_results, i, hookVars >>

\* line 303
Render ==
    /\ pc = "render"
    /\ log' = Append(log, Ev("render", "", { }, NoScores))
    /\ pc' = "finish"
    /\ UNCHANGED << optV, args, verbose, outVars, subVars, passes,
                    preprocessor, scores, pass_to_results, i, hookVars >>

\* lines 305-306 and the return of main
Finish ==
    /\ pc = "finish"
    /\ printed' = Msg("Done! Visit file://{} in a web browser to see the results.", "", << >>)
    /\ exitCode' = 0
    /\ outcome' = "done"
    /\ pc' = "exited"
    /\ UNCHANGED << optV, args, verbose, outVars, subVars, passes, preprocessor, runVars,
                    raised, traceback >>

Next ==
    \/ Raise
    \/ ArgParserError
    \/ ParserExit
    \/ ParseArgs
    \/ ResolvePasses
    \/ CheckOutput
    \/ EnterPreparing
    \/ GetSubs
    \/ GetArchive
    \/ GetIgnored
    \/ Rank
    \/ CompareBegin
    \/ CompareCall
    \/ RenderBegin
    \/ Render
    \/ Finish

Spec == Init /\ [][Next]_vars

(***************************************************************************)
(* Properties.                                                             *)
(***************************************************************************)
Parsed == args # NoArgs

\* the roots of the paths of a list that have at least one decodable file
NonEmptyRoots(paths) ==
    { FS[p].root : p \in { q \in Range(paths) :
                            \E k \in DOMAIN FS[q].included :
                                FS[q].included[k] \notin FS[q].undecodable } }

NonEmptyIncluded ==
    Cardinality(NonEmptyRoots(args.submissions)) + Cardinality(NonEmptyRoots(args.archive))

Logged(ev) == \E k \in DOMAIN log : log[k].ev = ev

Calls == SelectSeq(log, LAMBDA e : e.ev \in { "rank", "compare", "render" })

ReachedCount == log # << >> /\ log[Len(log)] = Ev("get_all", "distro", { }, NoScores)

\* C1: with fewer than two non-empty included submissions the run aborts in
\* the preparing phase with the fatal "at least two" error: rank, compare
\* and render are never called and "Done" is never printed; rank is called
\* only when at least two non-empty included submissions exist.
C1_AbortsBelowTwo ==
    /\ (Parsed /\ NonEmptyIncluded < 2) =>
          /\ ~Logged("rank") /\ ~Logged("compare") /\ ~Logged("render")
          /\ ~Logged("Scoring") /\ ~Logged("Comparing") /\ ~Logged("Rendering")
          /\ outcome # "done"
          /\ pc \notin { "rank", "cmp_begin", "cmp_call", "render", "finish" }
          /\ (pc = "exited" /\ ReachedCount) =>
                (raised = AtLeastTwoError /\ printed = AtLeastTwoError.msg /\ exitCode = 1)
    /\ (Logged("rank") \/ pc = "rank") => NonEmptyIncluded >= 2
    /\ raised = AtLeastTwoError => NonEmptyIncluded < 2

C1_Witness ==
    /\ pc = "exited"
    /\ raised = AtLeastTwoError
    /\ Len(args.submissions) = 2
    /\ Cardinality(subs) = 1
    /\ args.archive # << >>

C3_UnknownPassFailsFirst ==
    (Parsed /\ \E k \in DOMAIN args.passes : args.passes[k] \notin PassNames) =>
        /\ pc \in { "parsed", "exited" }
        /\ built = { } /\ AllSubs = { }
        /\ prompted = "no" /\ removedBy = "none"
        /\ log = << >>
        /\ (pc = "exited" /\ raised \notin EnvExceptions) =>
              /\ raised.cls = "_api.Error"
              /\ printed = raised.msg
              /\ printed.arg \in Range(args.passes) \ PassNames
              /\ Range(printed.names) = PassNames
              /\ exitCode = 1

C3_Witness ==
    /\ pc = "exited"
    /\ raised \notin EnvExceptions
    /\ Len(args.passes) = 2
    /\ args.passes[1] \in PassNames
    /\ printed.arg = "nope"

\* C4: in a successful run rank is called exactly once, with the first
\* requested pass; compare is called for every requested pass, in the
\* requested order, on the scores that rank call returned; the results
\* given to the renderer have an entry for every requested pass.
C4_RankOnceCompareEach ==
    /\ Cardinality({ k \in DOMAIN log : log[k].ev = "rank" }) <= 1
    /\ outcome = "done" =>
          LET calls == Calls
          IN  /\ Len(calls) = Len(args.passes) + 2
              /\ calls[1].ev = "rank" /\ calls[1].arg = args.passes[1]
              /\ calls[1].scores = scores /\ scores.pass = args.passes[1]
              /\ \A k \in DOMAIN args.passes :
                    /\ calls[k + 1].ev = "compare"
                    /\ calls[k + 1].arg = args.passes[k]
                    /\ calls[k + 1].scores = calls[1].scores
              /\ calls[Len(calls)].ev = "render"
              /\ DOMAIN pass_to_results = Range(args.passes)
              /\ \A p \in DOMAIN pass_to_results :
                    pass_to_results[p].pass = p /\ pass_to_results[p].scores = calls[1].scores

C4_Witness ==
    /\ outcome = "done"
    /\ args.passes = << "text", "structure" >>

\* the log of a complete run with the given pass names
RECURSIVE ComparingOf(_)
ComparingOf(names) ==
    IF names = << >> THEN << >>
    ELSE << [ ev |-> "Comparing", arg |-> Head(names) ],
            [ ev |-> "compare", arg |-> Head(names) ] >> \o ComparingOf(Tail(names))

OrderOf(names) ==
    << [ ev |-> "Preparing", arg |-> "" ],
       [ ev |-> "get_all", arg |-> "submissions" ],
       [ ev |-> "get_all", arg |-> "archive" ],
       [ ev |-> "get_all", arg |-> "distro" ],
       [ ev |-> "Scoring", arg |-> names[1] ],
       [ ev |-> "rank", arg |-> names[1] ] >>
    \o ComparingOf(names)
    \o << [ ev |-> "Rendering", arg |-> "" ], [ ev |-> "render", arg |-> "" ] >>

\* C5: the phases are strictly ordered and never overlap: Preparing,
\* Scoring, Comparing once per requested pass, Rendering, never going back;
\* scoring starts after the three get_all calls, comparing after rank has
\* returned, and render is called once, after compare returned for every
\* requested pass.
C5_PhasesInOrder ==
    LET order == OrderOf(args.passes)
    IN  /\ log # << >> =>
              /\ Len(log) <= Len(order)
              /\ \A k \in DOMAIN log :
                    log[k].ev = order[k].ev /\ log[k].arg = order[k].arg
        /\ outcome = "done" => Len(log) = Len(order)

C5_Witness ==
    /\ outcome = "done"
    /\ Len(args.passes) = 2
    /\ Len(log) = 12

\* C6: a Submission is immutable once constructed: no field of a regular,
\* archive or ignored submission, its preprocessor included, changes after
\* SubmissionFactory._get returned it.
C6_SubmissionsImmutable == AllSubs \subseteq built

\* C7: the traceback is printed only when the user gave -v.
C7_TracebackOnlyWithV == traceback => optV

\* what the hook prints for an exception
MessageFor(exc) ==
    IF exc.cls \in { "_api.Error", "lib50.Error" } /\ exc.msg # NoMsg THEN exc.msg
    ELSE IF exc.cls = "FileNotFoundError" THEN Msg("{} not found", exc.msg.arg, << >>)
    ELSE IF exc.cls = "GeneratorExit" THEN NoMsg
    ELSE GenericMsg

\* C7 as amended: the traceback is printed only when the user gave -v or
\* the exception reached the hook before the arguments were parsed; after
\* parsing it is printed exactly when -v was given, before parsing for
\* every exception the hook handles.  A domain error with a message prints
\* its message, FileNotFoundError "<filename> not found", any other
\* Exception or KeyboardInterrupt the generic message, any other
\* BaseException nothing.
C7_TracebackAfterParsing ==
    /\ traceback => (optV \/ ~Parsed)
    /\ traceback => raised # NoExc
    /\ raised # NoExc =>
          /\ printed = MessageFor(raised)
          /\ raised.cls = "GeneratorExit" => ~traceback
          /\ (raised.cls # "GeneratorExit" /\ Parsed) => (traceback <=> optV)
          /\ (raised.cls # "GeneratorExit" /\ ~Parsed) => traceback

C7_Witness ==
    /\ raised.cls = "RuntimeError"
    /\ ~Parsed
    /\ ~optV
    /\ traceback

\* C8: an argument-parsing failure exits with 2, an exception that reaches
\* the hook with 1; neither status comes from the other kind of failure or
\* from a successful run.
C8_ExitCodes ==
    /\ outcome = "usage" => exitCode = 2
    /\ raised # NoExc => exitCode = 1
    /\ exitCode = 2 => (outcome = "usage" /\ raised = NoExc)
    /\ exitCode = 1 => outcome \in { "error", "let_go", "quit" }
    /\ outcome \in { "done", "listed" } => exitCode = 0
    /\ pc = "exited" <=> exitCode # -1

C8_Witness == outcome = "usage" /\ exitCode = 2 /\ pc = "exited"

\* C9: whenever rank or compare is called for a pass, every regular,
\* archive and ignored submission carries the preprocessor composed from
\* that pass's ordered preprocessor list; rank's pass is the first
\* requested one.
C9_CarriedPreprocessor ==
    /\ \A k \in DOMAIN log :
          log[k].ev \in { "rank", "compare" } =>
              log[k].carried = { [ preprocessors |-> PassRegistry[log[k].arg].preprocessors ] }
    /\ pc \in { "rank", "cmp_call" } =>
          \A s \in AllSubs :
              s.preprocessor.preprocessors =
                  PassRegistry[args.passes[IF pc = "rank" THEN 1 ELSE i]].preprocessors

C9_Witness ==
    /\ Len(log) >= 10
    /\ log[8].ev = "compare" /\ log[8].arg = "structure"
    /\ log[10].ev = "compare" /\ log[10].arg = "text"
    /\ ignored_subs # { }

\* C10: an existing output is removed only on an answer that is empty or
\* starts with y or Y; any other answer, or the end of the input, exits
\* with 1, nothing removed, no submission constructed, no phase started;
\* an absent output is neither prompted for nor removed.
C10_RemoveOnlyOnYes ==
    /\ removedBy # "none" => (prompted = "answered" /\ output = "absent")
    /\ (pc = "prepare" /\ removedBy # "none") =>
          (resp = << >> \/ resp[1] \in { "y", "Y" })
    /\ (prompted # "no" /\ removedBy = "none") =>
          /\ pc = "exited" /\ exitCode = 1 /\ outcome = "quit"
          /\ output \in { "file", "dir" }
          /\ built = { } /\ AllSubs = { } /\ log = << >>
          /\ prompted = "answered" => (resp # << >> /\ resp[1] \notin { "y", "Y" })
    /\ (output = "absent" /\ removedBy = "none") => prompted = "no"
    /\ outcome = "quit" => (prompted # "no" /\ removedBy = "none")

C10_Witness ==
    /\ pc = "prepare"
    /\ removedBy = "shutil.rmtree"
    /\ resp = << "Y", "e", "s" >>

====
